---- MODULE Spec2Model ----
(***************************************************************************)
(* mailsink: an SMTP sink that decomposes each received mail into          *)
(* (subject, plain body, html body), stores it in SQLite with an FTS5      *)
(* mirror, and serves list / search / get-by-id over HTTP.                 *)
(*                                                                         *)
(* Text is modelled as a sequence of atoms.  An atom stands for a fixed    *)
(* piece of text ("Subject:", " ", "\n", "a", ...); the Go string          *)
(* functions (Split, HasPrefix, Contains, TrimSpace, ...) are modelled on  *)
(* these sequences by what they do on the text the atoms stand for.        *)
(***************************************************************************)
EXTENDS Integers, Sequences, FiniteSets, TLC

VARIABLES
    wire,        \* the raw payload the mail receiver is about to deliver (SpecParse)
    emails,      \* table emails: a set of rows
    emails_fts,  \* the FTS5 index of emails_fts: a set of postings [rowid, subject, body, from_addr, to_addr]
    nextId,      \* AUTOINCREMENT: the id the next INSERT gets
    clock,       \* CURRENT_TIMESTAMP, in whole seconds
    forwardAddr, \* the -forward flag ("" when forwarding is off)
    smtp,        \* what the last mailHandler run did and returned
    http,        \* the last HTTP response of emailsHandler / emailHandler
    steps        \* how many mails and clock ticks the run has taken (bounds the exploration)

vars == <<wire, emails, emails_fts, nextId, clock, forwardAddr, smtp, http, steps>>

(***************************************************************************)
(* Bounds of the model.                                                    *)
(***************************************************************************)
MaxLines == 4       \* lines of a free-form raw input
MaxParts == 2       \* parts of a composed multipart input
MaxQueryLen == 4    \* atoms of a search string
MaxEmails == 2      \* mails received in one run of the store
MaxTicks == 1       \* seconds that pass in one run of the store
MaxAdmin == 2       \* the newest rows that administrative SQL touches

(***************************************************************************)
(* Atoms and the Go string functions the code uses.                        *)
(***************************************************************************)
SP == " "
LF == "\n"
QUOTE == "\""
MINUS == "-"

\* unicode.IsSpace, on the atoms of the model
IsSpace(c) == c \in {SP, LF}

MinOf(S) == CHOOSE x \in S : \A y \in S : x <= y
MaxOf(S) == CHOOSE x \in S : \A y \in S : x >= y

\* strings.TrimSpace
TrimSpace(s) ==
    LET keep == {i \in 1..Len(s) : ~IsSpace(s[i])}
    IN  IF keep = {} THEN <<>> ELSE SubSeq(s, MinOf(keep), MaxOf(keep))

\* strings.TrimLeft(v, " \t")
TrimLeftBlank(s) ==
    LET keep == {i \in 1..Len(s) : s[i] # SP}
    IN  IF keep = {} THEN <<>> ELSE SubSeq(s, MinOf(keep), Len(s))

\* strings.HasPrefix
HasPrefix(s, p) == Len(s) >= Len(p) /\ SubSeq(s, 1, Len(p)) = p

\* strings.TrimPrefix
TrimPrefix(s, p) == IF HasPrefix(s, p) THEN SubSeq(s, Len(p) + 1, Len(s)) ELSE s

\* strings.Contains
Contains(s, p) == \E i \in 0..(Len(s) - Len(p)) : SubSeq(s, i + 1, i + Len(p)) = p

\* strings.Split(s, "\n"): n separators give n+1 pieces, Split("") = [""]
RECURSIVE Split(_)
Split(s) ==
    LET at == {i \in 1..Len(s) : s[i] = LF}
    IN  IF at = {} THEN <<s>>
        ELSE <<SubSeq(s, 1, MinOf(at) - 1)>> \o Split(SubSeq(s, MinOf(at) + 1, Len(s)))

\* the inverse used to build inputs: lines joined by "\n"
RECURSIVE Join(_)
Join(ls) ==
    IF ls = <<>> THEN <<>>
    ELSE IF Len(ls) = 1 THEN ls[1]
    ELSE ls[1] \o <<LF>> \o Join(Tail(ls))

SubjectPrefix == <<"Subject:", SP>>
HtmlMarker == <<"Content-Type:", SP, "text/html">>

(***************************************************************************)
(* parseEmailSimple: the line-oriented heuristic.                          *)
(***************************************************************************)
SimpleStart == [subject |-> <<>>, body |-> <<>>, html |-> <<>>,
                inBody |-> FALSE, isHTML |-> FALSE]

\* a variant of SimpleLine for comparison: an empty line in the body switches back to header mode
SimpleLineToggle(st, line) ==
    IF ~st.inBody THEN
        IF HasPrefix(line, SubjectPrefix)
        THEN [st EXCEPT !.subject = TrimPrefix(line, SubjectPrefix)]
        ELSE IF Contains(line, HtmlMarker) THEN [st EXCEPT !.isHTML = TRUE]
        ELSE IF line = <<>> THEN [st EXCEPT !.inBody = TRUE]
        ELSE st
    ELSE IF line = <<>> THEN [st EXCEPT !.inBody = FALSE]
    ELSE IF st.isHTML THEN [st EXCEPT !.html = @ \o line \o <<LF>>]
    ELSE [st EXCEPT !.body = @ \o line \o <<LF>>]

\* one iteration of the loop over lines
SimpleLine(st, line) ==
    IF ~st.inBody THEN
        IF HasPrefix(line, SubjectPrefix)
        THEN [st EXCEPT !.subject = TrimPrefix(line, SubjectPrefix)]
        ELSE IF Contains(line, HtmlMarker) THEN [st EXCEPT !.isHTML = TRUE]
        ELSE IF line = <<>> THEN [st EXCEPT !.inBody = TRUE]
        ELSE st
    ELSE IF st.isHTML THEN [st EXCEPT !.html = @ \o line \o <<LF>>]
    ELSE [st EXCEPT !.body = @ \o line \o <<LF>>]

RECURSIVE SimpleScan(_, _)
SimpleScan(st, lines) ==
    IF lines = <<>> THEN st ELSE SimpleScan(SimpleLine(st, Head(lines)), Tail(lines))

parseEmailSimple(raw) ==
    LET st == SimpleScan(SimpleStart, Split(raw))
    IN  [subject |-> TrimSpace(st.subject), body |-> TrimSpace(st.body),
         html |-> TrimSpace(st.html)]

(***************************************************************************)
(* net/mail.ReadMessage, mime.ParseMediaType and mime/multipart.Reader as  *)
(* parseEmail uses them (Go 1.23, the version go.mod names), on LF-ended   *)
(* lines.                                                                  *)
(***************************************************************************)
HeaderAtoms == {"Subject:", "Content-Type:"}
DashBoundary == "--B"
BoundaryParam == ";boundary=B"

\* textproto's trim: spaces and tabs off both ends of a line
TrimBlank(s) ==
    LET keep == {i \in 1..Len(s) : s[i] # SP}
    IN  IF keep = {} THEN <<>> ELSE SubSeq(s, MinOf(keep), MaxOf(keep))

\* bufio line read at pos (pos <= Len(raw)): the line without its "\n", where the
\* next line starts, and whether the line was ended by "\n" (not by the end of input)
LineAt(raw, pos) ==
    LET at == {i \in pos..Len(raw) : raw[i] = LF}
    IN  IF at = {} THEN [line |-> SubSeq(raw, pos, Len(raw)), next |-> Len(raw) + 1, ended |-> FALSE]
        ELSE [line |-> SubSeq(raw, pos, MinOf(at) - 1), next |-> MinOf(at) + 1, ended |-> TRUE]

\* textproto.Reader.ReadContinuedLine after its first line: every following line
\* that starts with a space is folded into the header line as " " + trim(line)
RECURSIVE Continuation(_, _, _)
Continuation(raw, acc, pos) ==
    IF pos <= Len(raw) /\ raw[pos] = SP THEN
        LET rest == {i \in pos..Len(raw) : raw[i] # SP}
        IN  IF rest = {} THEN [kv |-> acc \o <<SP>>, next |-> Len(raw) + 1]
            ELSE LET l == LineAt(raw, MinOf(rest))
                 IN  Continuation(raw, acc \o <<SP>> \o TrimBlank(l.line), l.next)
    ELSE [kv |-> acc, next |-> pos]

\* the header loop of net/mail.readHeader (strict = FALSE) and of
\* textproto.ReadMIMEHeader as multipart uses it (strict = TRUE): header lines up
\* to the first blank line; err is "nil", "EOF" (input ended before a blank line)
\* or "malformed" (a line without a colon, or in strict mode a key that is no token)
RECURSIVE HeaderLoop(_, _, _, _)
HeaderLoop(raw, hdr, pos, strict) ==
    IF pos > Len(raw) THEN [hdr |-> hdr, err |-> "EOF", pos |-> pos]
    ELSE LET l == LineAt(raw, pos)
         IN  IF l.line = <<>> THEN [hdr |-> hdr, err |-> "nil", pos |-> l.next]
             ELSE LET c == Continuation(raw, TrimBlank(l.line), l.next)
                      colons == {i \in 1..Len(c.kv) : c.kv[i] \in HeaderAtoms}
                  IN  IF colons = {} THEN [hdr |-> hdr, err |-> "malformed", pos |-> c.next]
                      ELSE LET k == MinOf(colons)
                               key == SubSeq(c.kv, 1, k)
                               value == TrimLeftBlank(SubSeq(c.kv, k + 1, Len(c.kv)))
                           IN  IF strict /\ Len(key) # 1
                               THEN [hdr |-> hdr, err |-> "malformed", pos |-> c.next]
                               ELSE HeaderLoop(raw, Append(hdr, [key |-> key, value |-> value]),
                                               c.next, strict)

\* readHeader / ReadMIMEHeader from pos: a first line starting with a space is refused
ReadHeaderAt(raw, pos, strict) ==
    IF pos <= Len(raw) /\ raw[pos] = SP
    THEN [hdr |-> <<>>, err |-> "malformed", pos |-> pos]
    ELSE HeaderLoop(raw, <<>>, pos, strict)

\* mail.ReadMessage: fails on a malformed header block and on an input that ends
\* before any header was read; an input that ends after its headers has an empty body
ReadMessage(raw) ==
    LET h == ReadHeaderAt(raw, 1, FALSE)
    IN  IF h.err # "nil" /\ (h.err # "EOF" \/ h.hdr = <<>>)
        THEN [ok |-> FALSE, header |-> <<>>, bodyPos |-> Len(raw) + 1]
        ELSE [ok |-> TRUE, header |-> h.hdr, bodyPos |-> h.pos]

\* Header.Get: the first value stored under the key, "" when there is none
HeaderGet(hdr, name) ==
    LET at == {i \in 1..Len(hdr) : hdr[i].key = <<name>>}
    IN  IF at = {} THEN <<>> ELSE hdr[MinOf(at)].value

\* mime.ParseMediaType: the media type before the first parameter, and the boundary
\* parameter; an empty or ill-formed media type is an error and yields ""
ParseMediaType(v) ==
    LET params == {i \in 1..Len(v) : v[i] = BoundaryParam}
        base == TrimSpace(IF params = {} THEN v ELSE SubSeq(v, 1, MinOf(params) - 1))
        bad == \/ base = <<>>
               \/ \E i \in 1..Len(base) : base[i] \in {SP, LF, QUOTE} \cup HeaderAtoms
               \/ Len(base) > 1
    IN  IF bad THEN [err |-> TRUE, mediaType |-> <<>>, boundary |-> <<>>]
        ELSE [err |-> FALSE, mediaType |-> base,
              boundary |-> IF params = {} THEN <<>> ELSE <<"B">>]

\* strings.HasPrefix(mediaType, "multipart/")
IsMultipart(mediaType) == mediaType = <<"multipart/mixed">>

\* after "--B" on a boundary line only blanks may follow (a delimiter), or "--" and
\* blanks (the final boundary)
AllBlank(s) == \A i \in 1..Len(s) : s[i] = SP
IsDelimiterLine(line) == HasPrefix(line, <<DashBoundary>>) /\ AllBlank(Tail(line))
IsFinalLine(line) ==
    HasPrefix(line, <<DashBoundary, "--">>) /\ AllBlank(SubSeq(line, 3, Len(line)))

\* Part.Read to its end: the content runs to the "\n" before the next line that
\* starts with the boundary (or is empty when that line comes at once); with no
\* such line it runs to the end of the input, and the read error is dropped by the
\* caller
PartContent(raw, pos) ==
    LET after(i) == i = Len(raw) \/ raw[i + 1] \in {SP, LF, "--"}
        hits == {i \in pos..Len(raw) :
                    raw[i] = DashBoundary /\ (i = pos \/ raw[i - 1] = LF) /\ after(i)}
    IN  IF hits = {} THEN [content |-> SubSeq(raw, pos, Len(raw)), next |-> Len(raw) + 1]
        ELSE IF MinOf(hits) = pos THEN [content |-> <<>>, next |-> pos]
        ELSE [content |-> SubSeq(raw, pos, MinOf(hits) - 2), next |-> MinOf(hits) - 1]

\* multipart.Reader.NextPart called until it returns an error: the parts read,
\* followed by how the loop ended, on io.EOF (the final boundary) or on another
\* error.  Before the first part any line that is no boundary is skipped; after a
\* part only the line end that closes it may come before the next boundary line.
RECURSIVE ReadParts(_, _, _, _)

\* a part whose header was read: its content, then the parts after it
PartRead(raw, hdr, c, partsRead) ==
    <<[header |-> hdr, content |-> c.content]>> \o ReadParts(raw, c.next, partsRead + 1, FALSE)

\* after a delimiter line: the part's header h as ReadMIMEHeader returns it
PartHeader(raw, h, partsRead) ==
    IF h.err # "nil" THEN <<[end |-> "error"]>>
    ELSE PartRead(raw, h.hdr, PartContent(raw, h.pos), partsRead)

\* NextPart looking at line l
PartLine(raw, l, partsRead, expectNewPart) ==
    IF IsDelimiterLine(l.line) /\ l.ended
    THEN PartHeader(raw, ReadHeaderAt(raw, l.next, TRUE), partsRead)
    ELSE IF IsFinalLine(l.line) THEN <<[end |-> "EOF"]>>
    ELSE IF ~l.ended \/ expectNewPart THEN <<[end |-> "error"]>>
    ELSE IF partsRead = 0 THEN ReadParts(raw, l.next, 0, FALSE)
    ELSE IF l.line = <<>> THEN ReadParts(raw, l.next, partsRead, TRUE)
    ELSE <<[end |-> "error"]>>

ReadParts(raw, pos, partsRead, expectNewPart) ==
    IF pos > Len(raw) THEN <<[end |-> "error"]>>
    ELSE PartLine(raw, LineAt(raw, pos), partsRead, expectNewPart)

\* multipart.NewReader(msg.Body, boundary) read to its end; an empty boundary makes
\* the first NextPart fail
MultipartParts(raw, pos, boundary) ==
    LET r == IF boundary = <<>> THEN <<[end |-> "error"]>> ELSE ReadParts(raw, pos, 0, FALSE)
    IN  [parts |-> SubSeq(r, 1, Len(r) - 1), err |-> r[Len(r)].end]

(***************************************************************************)
(* parseEmail                                                              *)
(***************************************************************************)
\* one iteration of the loop over the parts
PartStep(acc, part) ==
    LET partMediaType == ParseMediaType(HeaderGet(part.header, "Content-Type:")).mediaType
    IN  IF partMediaType = <<"text/plain">> /\ acc.body = <<>>
        THEN [acc EXCEPT !.body = TrimSpace(part.content)]
        ELSE IF partMediaType = <<"text/html">> /\ acc.html = <<>>
        THEN [acc EXCEPT !.html = TrimSpace(part.content)]
        ELSE acc

RECURSIVE PartLoop(_, _)
PartLoop(acc, parts) ==
    IF parts = <<>> THEN acc ELSE PartLoop(PartStep(acc, Head(parts)), Tail(parts))

\* the media type parseEmail goes by: "text/plain" when Content-Type does not parse
TopMediaType(msg) ==
    LET mt == ParseMediaType(HeaderGet(msg.header, "Content-Type:"))
    IN  IF mt.err THEN [mediaType |-> <<"text/plain">>, boundary |-> <<>>]
        ELSE [mediaType |-> mt.mediaType, boundary |-> mt.boundary]

\* parseEmail once mail.ReadMessage has returned msg and the Content-Type header
\* has been parsed into top
parseMessage(raw, msg, top) ==
    IF IsMultipart(top.mediaType) THEN
        [subject |-> HeaderGet(msg.header, "Subject:"),
         body |-> PartLoop([body |-> <<>>, html |-> <<>>],
                           MultipartParts(raw, msg.bodyPos, top.boundary).parts).body,
         html |-> PartLoop([body |-> <<>>, html |-> <<>>],
                           MultipartParts(raw, msg.bodyPos, top.boundary).parts).html]
    ELSE IF top.mediaType = <<"text/html">>
    THEN [subject |-> HeaderGet(msg.header, "Subject:"), body |-> <<>>,
          html |-> TrimSpace(SubSeq(raw, msg.bodyPos, Len(raw)))]
    ELSE [subject |-> HeaderGet(msg.header, "Subject:"),
          body |-> TrimSpace(SubSeq(raw, msg.bodyPos, Len(raw))), html |-> <<>>]

parseRead(raw, msg) ==
    IF ~msg.ok THEN parseEmailSimple(raw) ELSE parseMessage(raw, msg, TopMediaType(msg))

parseEmail(raw) == parseRead(raw, ReadMessage(raw))

(***************************************************************************)
(* fts5_term, the search query compiler (fts5query.go).  A search string   *)
(* is a sequence of the atoms "a", "b", " ", "\"" and "-".                 *)
(***************************************************************************)
\* the end of a bare token starting at i: the atom before the next space
BareEnd(q, i) ==
    LET sp == {j \in i..Len(q) : q[j] = SP}
    IN  IF sp = {} THEN Len(q) ELSE MinOf(sp) - 1

\* tokenize respecting quote boundaries: a token is a bare run up to the next
\* space or a double-quoted phrase, with an optional leading "-" marking an
\* exclusion; tokens without text are dropped; an opening quote that is never
\* closed is the error
RECURSIVE Tokenize(_, _, _)
Tokenize(q, i, acc) ==
    IF i > Len(q) THEN [err |-> FALSE, tokens |-> acc]
    ELSE IF q[i] = SP THEN Tokenize(q, i + 1, acc)
    ELSE LET excluded == q[i] = MINUS /\ i < Len(q) /\ q[i + 1] # SP
             s == IF excluded THEN i + 1 ELSE i
         IN  IF q[s] = QUOTE THEN
                 LET close == {j \in (s + 1)..Len(q) : q[j] = QUOTE}
                 IN  IF close = {} THEN [err |-> TRUE, tokens |-> <<>>]
                     ELSE LET lit == SubSeq(q, s + 1, MinOf(close) - 1)
                          IN  Tokenize(q, MinOf(close) + 1,
                                       IF lit = <<>> THEN acc
                                       ELSE Append(acc, [lit |-> lit, excluded |-> excluded]))
             ELSE Tokenize(q, BareEnd(q, s) + 1,
                           Append(acc, [lit |-> SubSeq(q, s, BareEnd(q, s)), excluded |-> excluded]))

\* a variant of Fts5Quote for comparison: the literal is wrapped but its quotes are not doubled
Fts5QuoteNoDouble(lit) == <<QUOTE>> \o lit \o <<QUOTE>>

RECURSIVE DoubleQuotes(_)
DoubleQuotes(lit) ==
    IF lit = <<>> THEN <<>>
    ELSE (IF Head(lit) = QUOTE THEN <<QUOTE, QUOTE>> ELSE <<Head(lit)>>) \o DoubleQuotes(Tail(lit))

\* a literal as an FTS5 string: wrapped in double quotes, embedded quotes doubled
Fts5Quote(lit) == <<QUOTE>> \o DoubleQuotes(lit) \o <<QUOTE>>

RECURSIVE EmitRequired(_)
EmitRequired(ts) ==
    IF ts = <<>> THEN <<>>
    ELSE IF Len(ts) = 1 THEN Fts5Quote(ts[1].lit)
    ELSE Fts5Quote(ts[1].lit) \o <<SP>> \o EmitRequired(Tail(ts))

RECURSIVE EmitExcluded(_)
EmitExcluded(ts) ==
    IF ts = <<>> THEN <<>>
    ELSE <<SP, "NOT", SP>> \o Fts5Quote(ts[1].lit) \o EmitExcluded(Tail(ts))

SelectTokens(ts, excluded) == SelectSeq(ts, LAMBDA t : t.excluded = excluded)

\* compile: required terms joined by the implicit AND, then each excluded term
\* behind NOT; an unterminated quote or a string without a required term is the
\* validation error
fts5_term(q) ==
    LET t == Tokenize(q, 1, <<>>)
    IN  IF t.err \/ SelectTokens(t.tokens, FALSE) = <<>>
        THEN [err |-> TRUE, query |-> <<>>]
        ELSE [err |-> FALSE,
              query |-> EmitRequired(SelectTokens(t.tokens, FALSE))
                        \o EmitExcluded(SelectTokens(t.tokens, TRUE))]

(***************************************************************************)
(* SQLite FTS5 as the schema and the MATCH query use it.                   *)
(***************************************************************************)
\* an FTS5 string literal read from j, the atom after its opening quote: "" inside
\* it is one quote, a single quote ends it
RECURSIVE FtsString(_, _, _)
FtsString(s, j, acc) ==
    IF j > Len(s) THEN [ok |-> FALSE, lit |-> acc, next |-> j]
    ELSE IF s[j] # QUOTE THEN FtsString(s, j + 1, Append(acc, s[j]))
    ELSE IF j < Len(s) /\ s[j + 1] = QUOTE THEN FtsString(s, j + 2, Append(acc, QUOTE))
    ELSE [ok |-> TRUE, lit |-> acc, next |-> j + 1]

\* FTS5's reading of a query string: the string literals in order, each with
\* whether a NOT precedes it; anything else outside a literal is kept as "bare"
\* (query syntax that is no literal)
RECURSIVE FtsLex(_, _, _, _)
FtsLex(s, i, negated, acc) ==
    IF i > Len(s) THEN acc
    ELSE IF s[i] = SP THEN FtsLex(s, i + 1, negated, acc)
    ELSE IF s[i] = "NOT" THEN FtsLex(s, i + 1, TRUE, acc)
    ELSE IF s[i] = QUOTE THEN
        LET r == FtsString(s, i + 1, <<>>)
        IN  FtsLex(s, r.next, FALSE,
                   Append(acc, [kind |-> IF r.ok THEN "string" ELSE "unterminated",
                                lit |-> r.lit, excluded |-> negated]))
    ELSE FtsLex(s, i + 1, FALSE, Append(acc, [kind |-> "bare", lit |-> <<s[i]>>, excluded |-> negated]))

\* the unicode61 tokenizer: the words of a text are its maximal runs of atoms that
\* are neither white space nor punctuation
IsSeparator(c) == c \in {SP, LF, QUOTE, MINUS}

RECURSIVE Words(_, _, _)
Words(text, i, cur) ==
    IF i > Len(text) THEN (IF cur = <<>> THEN <<>> ELSE <<cur>>)
    ELSE IF IsSeparator(text[i])
         THEN (IF cur = <<>> THEN <<>> ELSE <<cur>>) \o Words(text, i + 1, <<>>)
         ELSE Words(text, i + 1, Append(cur, text[i]))

\* a phrase occurs in a column: its words, in order and adjacent, among the
\* column's words; a phrase without a word matches nothing
PhraseIn(lit, column) ==
    LET p == Words(lit, 1, <<>>)
        w == Words(column, 1, <<>>)
    IN  p # <<>> /\ \E k \in 0..(Len(w) - Len(p)) : SubSeq(w, k + 1, k + Len(p)) = p

\* the indexed columns of emails_fts (schema: subject, body, from_addr, to_addr)
PhraseInPosting(lit, p) ==
    \/ PhraseIn(lit, p.subject) \/ PhraseIn(lit, p.body)
    \/ PhraseIn(lit, p.from_addr) \/ PhraseIn(lit, p.to_addr)

\* emails_fts MATCH ?: every literal not behind NOT occurs, none behind NOT does;
\* a query FTS5 cannot read is an error of the statement
FtsSyntaxOk(query) ==
    LET lx == FtsLex(query, 1, FALSE, <<>>)
    IN  /\ \A k \in 1..Len(lx) :
               lx[k].kind = "string" \/ (lx[k].kind = "bare" /\ lx[k].lit \in {<<"a">>, <<"b">>})
        /\ \E k \in 1..Len(lx) : ~lx[k].excluded

FtsMatch(p, query) ==
    LET lx == FtsLex(query, 1, FALSE, <<>>)
    IN  \A k \in 1..Len(lx) : PhraseInPosting(lx[k].lit, p) = ~lx[k].excluded

(***************************************************************************)
(* The store: table emails, its FTS5 mirror emails_fts and the triggers    *)
(* (initDB).  emails_fts is an external-content table (content=emails): it *)
(* keeps only the index and reads column values from emails.               *)
(***************************************************************************)
Limit == 100

Posting(rowid, subject, body, from_addr, to_addr) ==
    [rowid |-> rowid, subject |-> subject, body |-> body,
     from_addr |-> from_addr, to_addr |-> to_addr]

\* INSERT INTO emails_fts(rowid, subject, body, from_addr, to_addr) VALUES (...)
FtsInsert(fts, rowid, subject, body, from_addr, to_addr) ==
    fts \cup {Posting(rowid, subject, body, from_addr, to_addr)}

\* DELETE FROM emails_fts WHERE rowid = ? on an external-content table: FTS5
\* looks the row up in the content table as it is now, and removes from the index
\* the entries of the values it finds there; with no such row nothing is removed
FtsDelete(fts, content, rowid) ==
    fts \ {Posting(r.id, r.subject, r.body, r.from_addr, r.to_addr) :
              r \in {x \in content : x.id = rowid}}

\* a variant of emails_ai for comparison: the subject is left out of the index entry
emails_aiNoSubject(fts, new) ==
    FtsInsert(fts, new.id, <<>>, new.body, new.from_addr, new.to_addr)

\* trigger emails_ai
emails_ai(fts, new) ==
    FtsInsert(fts, new.id, new.subject, new.body, new.from_addr, new.to_addr)

\* trigger emails_ad; content is the table after the DELETE
emails_ad(fts, content, old) == FtsDelete(fts, content, old.id)

\* trigger emails_au; content is the table after the UPDATE
emails_au(fts, content, old, new) ==
    FtsInsert(FtsDelete(fts, content, old.id),
              new.id, new.subject, new.body, new.from_addr, new.to_addr)

\* the rows of emails JOIN emails_fts ON e.id = emails_fts.rowid WHERE emails_fts MATCH ?
SearchRows(query) ==
    {e \in emails : \E p \in emails_fts : p.rowid = e.id /\ FtsMatch(p, query)}

\* the orders SQLite may break timestamp ties in: a ranking of the rows that
\* share their timestamp with another row of the result
TieBreaks(rows) ==
    LET tied == {r.id : r \in {x \in rows : \E y \in rows : y.id # x.id /\ y.timestamp = x.timestamp}}
    IN  {tb \in [tied -> 1..Cardinality(tied)] : \A i, j \in tied : i # j => tb[i] # tb[j]}

\* ORDER BY timestamp DESC LIMIT 100; rows with equal timestamps come in the
\* order tb, which the engine picks
OrderLimit(rows, tb) ==
    LET before(x, y) == \/ x.timestamp > y.timestamp
                        \/ x.timestamp = y.timestamp /\ x.id # y.id /\ tb[x.id] < tb[y.id]
        place == [r \in rows |-> Cardinality({x \in rows : before(x, r)})]
        n == IF Cardinality(rows) < Limit THEN Cardinality(rows) ELSE Limit
    IN  [i \in 1..n |-> CHOOSE r \in rows : place[r] = i - 1]

Idle == [kind |-> "idle"]

(***************************************************************************)
(* mailHandler                                                             *)
(***************************************************************************)
\* strings.Join(env.Recipients, ", ")
RECURSIVE JoinRecipients(_)
JoinRecipients(rs) ==
    IF rs = <<>> THEN <<>>
    ELSE IF Len(rs) = 1 THEN rs[1]
    ELSE rs[1] \o <<",", SP>> \o JoinRecipients(Tail(rs))

Envelope(data) == [Sender |-> <<"f">>, Recipients |-> <<<<"t">>>>, Data |-> data]

\* a row of table emails
Row(id, timestamp, from, recipients, parsed, rawEmail) ==
    [id |-> id, from_addr |-> from, to_addr |-> recipients,
     subject |-> parsed.subject, body |-> parsed.body, html |-> parsed.html,
     raw |-> rawEmail, timestamp |-> timestamp]

\* the row the INSERT adds: id and timestamp are the column defaults
EmailRow(from, recipients, parsed, rawEmail) ==
    Row(nextId, clock, from, recipients, parsed, rawEmail)

\* a variant of mailStore for comparison: the mail is forwarded whether or not the
\* INSERT succeeded, and a failed forward is returned as the handler's error
mailStoreForwardFirst(row, parsed, dbFails, forwardFails) ==
    /\ IF dbFails
       THEN /\ UNCHANGED <<emails, emails_fts, nextId>>
            /\ smtp' = [kind |-> "mail", raw |-> row.raw, parsed |-> parsed,
                        insert |-> "failed",
                        forward |-> IF forwardAddr = "" THEN "none"
                                    ELSE IF forwardFails THEN "failed" ELSE "sent",
                        err |-> "store"]
       ELSE /\ emails' = emails \cup {row}
            /\ emails_fts' = emails_ai(emails_fts, row)
            /\ nextId' = nextId + 1
            /\ smtp' = [kind |-> "mail", raw |-> row.raw, parsed |-> parsed,
                        insert |-> "done",
                        forward |-> IF forwardAddr = "" THEN "none"
                                    ELSE IF forwardFails THEN "failed" ELSE "sent",
                        err |-> IF forwardAddr # "" /\ forwardFails THEN "forward" ELSE "nil"]
    /\ http' = Idle
    /\ steps' = [steps EXCEPT !.mails = @ + 1]
    /\ UNCHANGED <<wire, clock, forwardAddr>>

\* mailHandler from the INSERT on, with the result of parseEmail
\* dbFails: db.Exec returns an error; forwardFails: forwardEmail returns an error
mailStore(row, parsed, dbFails, forwardFails) ==
    /\ IF dbFails
       THEN /\ UNCHANGED <<emails, emails_fts, nextId>>
            /\ smtp' = [kind |-> "mail", raw |-> row.raw, parsed |-> parsed,
                        insert |-> "failed", forward |-> "none", err |-> "store"]
       ELSE /\ emails' = emails \cup {row}
            /\ emails_fts' = emails_ai(emails_fts, row)
            /\ nextId' = nextId + 1
            /\ smtp' = [kind |-> "mail", raw |-> row.raw, parsed |-> parsed,
                        insert |-> "done",
                        forward |-> IF forwardAddr = "" THEN "none"
                                    ELSE IF forwardFails THEN "failed" ELSE "sent",
                        err |-> "nil"]
    /\ http' = Idle
    /\ steps' = [steps EXCEPT !.mails = @ + 1]
    /\ UNCHANGED <<wire, clock, forwardAddr>>

mailParsed(env, parsed, dbFails, forwardFails) ==
    mailStore(EmailRow(env.Sender, JoinRecipients(env.Recipients), parsed, env.Data),
              parsed, dbFails, forwardFails)

\* a variant of mailHandler for comparison: a mail whose header block net/mail cannot read is
\* refused before the INSERT
mailHandlerStrict(env, dbFails, forwardFails) ==
    IF ReadMessage(env.Data).ok
    THEN mailParsed(env, parseEmail(env.Data), dbFails, forwardFails)
    ELSE /\ smtp' = [kind |-> "mail", raw |-> env.Data, parsed |-> <<>>,
                     insert |-> "none", forward |-> "none", err |-> "parse"]
         /\ http' = Idle
         /\ steps' = [steps EXCEPT !.mails = @ + 1]
         /\ UNCHANGED <<wire, emails, emails_fts, nextId, clock, forwardAddr>>

mailHandler(env, dbFails, forwardFails) ==
    mailParsed(env, parseEmail(env.Data), dbFails, forwardFails)

(***************************************************************************)
(* emailsHandler and emailHandler                                          *)
(***************************************************************************)
\* what the response shows of a row
Shown(r) == [id |-> r.id, subject |-> r.subject, timestamp |-> r.timestamp]

\* the JSON array of the rows scanned, in their order
ShownAll(rows) == [i \in 1..Len(rows) |-> Shown(rows[i])]

Listing(rows, tb) == ShownAll(OrderLimit(rows, tb))

\* a variant of emailsResponse for comparison: a query that does not compile falls through to
\* the unfiltered listing
emailsResponseCoerce(q, dbFails, tb) ==
    IF dbFails
    THEN [kind |-> "emails", q |-> q, status |-> 500, result |-> <<>>, reads |-> 1]
    ELSE [kind |-> "emails", q |-> q, status |-> 200, reads |-> 1,
          result |-> Listing(IF q # <<>> /\ ~fts5_term(q).err
                             THEN SearchRows(fts5_term(q).query) ELSE emails, tb)]

\* the rows a request for q reads when the store answers
emailsRows(q) ==
    IF q # <<>> /\ ~fts5_term(q).err THEN SearchRows(fts5_term(q).query) ELSE emails

\* dbFails: db.Query returns an error
emailsResponse(q, dbFails, tb) ==
    IF q # <<>> /\ fts5_term(q).err
    THEN [kind |-> "emails", q |-> q, status |-> 400, result |-> <<>>, reads |-> 0]
    ELSE IF dbFails \/ (q # <<>> /\ ~FtsSyntaxOk(fts5_term(q).query))
    THEN [kind |-> "emails", q |-> q, status |-> 500, result |-> <<>>, reads |-> 1]
    ELSE [kind |-> "emails", q |-> q, status |-> 200, reads |-> 1,
          result |-> Listing(emailsRows(q), tb)]

emailsHandler(q, dbFails) ==
    /\ \E tb \in TieBreaks(emailsRows(q)) : http' = emailsResponse(q, dbFails, tb)
    /\ smtp' = Idle
    /\ UNCHANGED <<wire, emails, emails_fts, nextId, clock, forwardAddr, steps>>

\* dbFails: QueryRow(...).Scan returns an error other than sql.ErrNoRows
emailResponse(id, dbFails) ==
    IF dbFails \/ ~\E r \in emails : r.id = id
    THEN [kind |-> "email", id |-> id, status |-> 404, storeError |-> dbFails, result |-> <<>>]
    ELSE [kind |-> "email", id |-> id, status |-> 200, storeError |-> FALSE,
          result |-> <<Shown(CHOOSE r \in emails : r.id = id)>>]

emailHandler(id, dbFails) ==
    /\ http' = emailResponse(id, dbFails)
    /\ smtp' = Idle
    /\ UNCHANGED <<wire, emails, emails_fts, nextId, clock, forwardAddr, steps>>

(***************************************************************************)
(* The inputs the model draws from.                                        *)
(***************************************************************************)
SubjectLine == <<"Subject:", SP, "a">>
HtmlLine == <<"Content-Type:", SP, "text/html">>

\* the lines of a free-form input
FreeLines ==
    { SubjectLine, HtmlLine, <<>>, <<"b">>, <<SP>>,
      <<"Subject:", SP, "Content-Type:", SP, "text/html">> }

FreeRaws == {Join(ls) : ls \in UNION {[1..n -> FreeLines] : n \in 0..MaxLines}}

\* a multipart message: a Content-Type with or without its boundary parameter,
\* then the parts, each a boundary line, an optional Content-Type, a blank line and
\* one line of content, then the final boundary or nothing
PartTypes == {"text/plain", "text/html", "image/png", "none"}
PartContents == {<<>>, <<SP>>, <<"a">>}

RECURSIVE PartLines(_)
PartLines(ps) ==
    IF ps = <<>> THEN <<>>
    ELSE <<<<DashBoundary>>>>
         \o (IF ps[1].type = "none" THEN <<>> ELSE <<<<"Content-Type:", SP, ps[1].type>>>>)
         \o <<<<>>, ps[1].content>> \o PartLines(Tail(ps))

MultipartRaw(hasBoundary, ps, closed) ==
    Join(<<SubjectLine,
           <<"Content-Type:", SP, "multipart/mixed">> \o (IF hasBoundary THEN <<BoundaryParam>> ELSE <<>>),
           <<>>>>
         \o PartLines(ps)
         \o (IF closed THEN <<<<DashBoundary, "--">>>> ELSE <<>>))

MultipartRaws ==
    {MultipartRaw(hb, ps, cl) :
        hb \in BOOLEAN, cl \in BOOLEAN,
        ps \in UNION {[1..n -> [type : PartTypes, content : PartContents]] : n \in 0..MaxParts}}

RawInputs == FreeRaws \cup MultipartRaws

\* the mails the store is filled with
PlainRaw == Join(<<SubjectLine, <<>>, <<"b">>>>)
HtmlRaw == Join(<<<<"Subject:", SP, "a", SP, "b">>, HtmlLine, <<>>, <<"b">>>>)
StoreRaws == {PlainRaw, HtmlRaw}

\* the search strings asked of the store, and all search strings up to MaxQueryLen
StoreQueries == {<<>>, <<"a">>, <<"b">>, <<"a", SP, "b">>, <<"a", SP, MINUS, "b">>, <<QUOTE, "a">>}
QueryAtoms == {"a", "b", SP, QUOTE, MINUS}
Queries == UNION {[1..n -> QueryAtoms] : n \in 0..MaxQueryLen}

(***************************************************************************)
(* Administrative SQL on the table: the statements the triggers emails_ad  *)
(* and emails_au answer.                                                   *)
(***************************************************************************)
AdminIds == {r.id : r \in {x \in emails : x.id + MaxAdmin >= nextId}}

\* DELETE FROM emails WHERE id = ?
AdminDelete(id) ==
    /\ \E old \in emails :
          /\ old.id = id
          /\ emails' = emails \ {old}
          /\ emails_fts' = emails_ad(emails_fts, emails', old)
    /\ smtp' = Idle
    /\ http' = Idle
    /\ UNCHANGED <<wire, nextId, clock, forwardAddr, steps>>

\* UPDATE emails SET subject = ? WHERE id = ?
AdminUpdate(id, subject) ==
    /\ \E old \in emails :
          /\ old.id = id
          /\ old.subject # subject
          /\ emails' = (emails \ {old}) \cup {[old EXCEPT !.subject = subject]}
          /\ emails_fts' = emails_au(emails_fts, emails', old, [old EXCEPT !.subject = subject])
    /\ smtp' = Idle
    /\ http' = Idle
    /\ UNCHANGED <<wire, nextId, clock, forwardAddr, steps>>

\* a second passes
Tick ==
    /\ steps.ticks < MaxTicks
    /\ clock' = clock + 1
    /\ steps' = [steps EXCEPT !.ticks = @ + 1]
    /\ UNCHANGED <<wire, emails, emails_fts, nextId, forwardAddr, smtp, http>>

(***************************************************************************)
(* SpecParse: one mail, drawn from RawInputs, is delivered to mailHandler. *)
(***************************************************************************)
InitParse ==
    /\ wire \in RawInputs
    /\ emails = {}
    /\ emails_fts = {}
    /\ nextId = 1
    /\ clock = 0
    /\ forwardAddr \in {"", "relay:25"}
    /\ smtp = Idle
    /\ http = Idle
    /\ steps = [mails |-> 0, ticks |-> 0]

Deliver ==
    /\ steps.mails = 0
    /\ \E dbFails \in BOOLEAN, forwardFails \in BOOLEAN :
          mailHandler(Envelope(wire), dbFails, forwardFails)

NextParse == Deliver

SpecParse == InitParse /\ [][NextParse]_vars

(***************************************************************************)
(* Spec: the store under mails, clock ticks, administrative SQL and HTTP   *)
(* requests.                                                               *)
(***************************************************************************)
Init ==
    /\ wire = <<>>
    /\ emails = {}
    /\ emails_fts = {}
    /\ nextId = 1
    /\ clock = 0
    /\ forwardAddr = ""
    /\ smtp = Idle
    /\ http = Idle
    /\ steps = [mails |-> 0, ticks |-> 0]

Receive ==
    /\ steps.mails < MaxEmails
    /\ \E raw \in StoreRaws, dbFails \in BOOLEAN :
          mailHandler(Envelope(raw), dbFails, FALSE)

Delete == \E id \in AdminIds : AdminDelete(id)

Update == \E id \in AdminIds : AdminUpdate(id, <<"b">>)

List == \E q \in StoreQueries, dbFails \in BOOLEAN : emailsHandler(q, dbFails)

\* GET /api/email/{id} for one of the newest ids or the id no row has yet
Get == \E id \in AdminIds \cup {nextId}, dbFails \in BOOLEAN : emailHandler(id, dbFails)

Next == Receive \/ Tick \/ Delete \/ Update \/ List \/ Get

Spec == Init /\ [][Next]_vars

(***************************************************************************)
(* SpecBulk: a store that already holds Limit mails, received one a        *)
(* second, under one more mail, DELETE statements and searches.            *)
(***************************************************************************)
\* a mail whose subject is an exclusion when it is typed as a search string
ExcludedRaw == Join(<<<<"Subject:", SP, MINUS, "a">>, <<>>, <<"b">>>>)
BulkRaws == {PlainRaw, ExcludedRaw}
BulkQueries == {<<>>, <<"a">>, <<"b">>, <<MINUS, "a">>}

\* the i-th mail: PlainRaw as mailHandler stores it
BulkRow(i) ==
    Row(i, i, Envelope(PlainRaw).Sender, JoinRecipients(Envelope(PlainRaw).Recipients),
        parseEmail(PlainRaw), PlainRaw)

InitBulk ==
    /\ wire = <<>>
    /\ emails = {BulkRow(i) : i \in 1..Limit}
    /\ emails_fts = UNION {emails_ai({}, BulkRow(i)) : i \in 1..Limit}
    /\ nextId = Limit + 1
    /\ clock = Limit
    /\ forwardAddr = ""
    /\ smtp = Idle
    /\ http = Idle
    /\ steps = [mails |-> 0, ticks |-> 0]

ReceiveBulk ==
    /\ steps.mails = 0
    /\ \E raw \in BulkRaws, dbFails \in BOOLEAN : mailHandler(Envelope(raw), dbFails, FALSE)

\* DELETE of the oldest or of the newest of the first Limit rows
DeleteBulk == \E id \in {1, Limit} : AdminDelete(id)

SearchBulk ==
    /\ http = Idle
    /\ \E q \in BulkQueries, dbFails \in BOOLEAN : emailsHandler(q, dbFails)

NextBulk == ReceiveBulk \/ DeleteBulk \/ SearchBulk

SpecBulk == InitBulk /\ [][NextBulk]_vars

(***************************************************************************)
(* SpecQuery: every search string up to MaxQueryLen is asked of a store    *)
(* holding at most one mail.                                               *)
(***************************************************************************)
ReceiveOne ==
    /\ steps.mails = 0
    /\ mailHandler(Envelope(HtmlRaw), FALSE, FALSE)

\* one search is asked of each state of the store
Search ==
    /\ http = Idle
    /\ \E q \in Queries, dbFails \in BOOLEAN : emailsHandler(q, dbFails)

NextQuery == ReceiveOne \/ Search

SpecQuery == Init /\ [][NextQuery]_vars

(***************************************************************************)
(* Properties of parseEmail, parseEmailSimple and mailHandler, under       *)
(* SpecParse.                                                              *)
(***************************************************************************)
Atoms ==
    {SP, LF, QUOTE, MINUS, "a", "b", "NOT", "Subject:", "Content-Type:", "text/html",
     "text/plain", "image/png", "multipart/mixed", BoundaryParam, DashBoundary, "--"}

\* C1: whatever the raw input is, parseEmail returns a (subject, body, html)
\* triple of strings and mailHandler goes on to the INSERT: the handler returns an
\* error only when the INSERT itself failed, and a mail whose INSERT succeeded is a
\* row holding the raw input and the triple
C1_ParseNeverRejects ==
    smtp.kind = "mail" =>
        /\ smtp.raw = wire
        /\ DOMAIN smtp.parsed = {"subject", "body", "html"}
        /\ \A f \in {"subject", "body", "html"} : smtp.parsed[f] \in Seq(Atoms)
        /\ smtp.parsed = parseEmail(wire)
        /\ smtp.insert \in {"done", "failed"}
        /\ smtp.err = (IF smtp.insert = "done" THEN "nil" ELSE "store")
        /\ smtp.insert = "done" =>
               \E r \in emails : /\ r.raw = wire
                                 /\ r.subject = smtp.parsed.subject
                                 /\ r.body = smtp.parsed.body
                                 /\ r.html = smtp.parsed.html

\* a non-empty mail that mail.ReadMessage cannot read was delivered and stored
C1_MalformedStored ==
    /\ smtp.kind = "mail"
    /\ smtp.insert = "done"
    /\ wire # <<>>
    /\ ~ReadMessage(wire).ok
    /\ \E r \in emails : r.raw = wire

\* the content of the first part of a media type, "" when no part has it
FirstOfType(parts, type) ==
    LET at == {i \in 1..Len(parts) :
                  ParseMediaType(HeaderGet(parts[i].header, "Content-Type:")).mediaType = <<type>>}
    IN  IF at = {} THEN <<>> ELSE parts[MinOf(at)].content

\* the parts multipart.Reader yields for a multipart message
PartsOf(raw, msg) == MultipartParts(raw, msg.bodyPos, TopMediaType(msg).boundary).parts

\* C2: for a multipart message the plain body is the (trimmed) content of the
\* first text/plain part and the html body that of the first text/html part, also
\* when that part is empty or white space; later parts of the type are ignored
C2_FirstPartWins ==
    (smtp.kind = "mail" /\ ReadMessage(wire).ok
        /\ IsMultipart(TopMediaType(ReadMessage(wire)).mediaType)) =>
        /\ smtp.parsed.body = TrimSpace(FirstOfType(PartsOf(wire, ReadMessage(wire)), "text/plain"))
        /\ smtp.parsed.html = TrimSpace(FirstOfType(PartsOf(wire, ReadMessage(wire)), "text/html"))

\* the structured parse fails: the header block is malformed, or the message is
\* multipart and reading its parts ends on an error other than the final boundary
StructuredParseFails(raw, msg) ==
    \/ ~msg.ok
    \/ /\ IsMultipart(TopMediaType(msg).mediaType)
       /\ MultipartParts(raw, msg.bodyPos, TopMediaType(msg).boundary).err = "error"

\* C3: whenever the structured parse fails, for any of its reasons, parseEmail
\* returns what parseEmailSimple returns on the same input
C3_FallbackOnEveryFailure ==
    (smtp.kind = "mail" /\ StructuredParseFails(wire, ReadMessage(wire))) =>
        smtp.parsed = parseEmailSimple(wire)

\* lines i..n of a text, each followed by "\n"
RECURSIVE LinesFrom(_, _)
LinesFrom(lines, i) ==
    IF i > Len(lines) THEN <<>> ELSE lines[i] \o <<LF>> \o LinesFrom(lines, i + 1)

\* the two-phase scan stated on the lines of the input: k is the first empty line
\* (one past the last line when there is none); the subject is that of the last
\* line before k beginning with "Subject: "; flagLines are the lines before k that
\* set the is-html flag; the lines after k go to the html body when the flag is
\* set and to the plain body otherwise
TwoPhase(lines, k, subjects, flagLines) ==
    [subject |-> TrimSpace(IF subjects = {} THEN <<>>
                           ELSE TrimPrefix(lines[MaxOf(subjects)], SubjectPrefix)),
     body |-> IF flagLines = {} THEN TrimSpace(LinesFrom(lines, k + 1)) ELSE <<>>,
     html |-> IF flagLines = {} THEN <<>> ELSE TrimSpace(LinesFrom(lines, k + 1))]

FirstEmpty(lines) ==
    IF \E i \in 1..Len(lines) : lines[i] = <<>>
    THEN MinOf({i \in 1..Len(lines) : lines[i] = <<>>})
    ELSE Len(lines) + 1

SubjectLines(lines, k) == {i \in 1..(k - 1) : HasPrefix(lines[i], SubjectPrefix)}

\* every line before k that contains the marker
MarkerLines(lines, k) == {i \in 1..(k - 1) : Contains(lines[i], HtmlMarker)}

\* C4, as the code has it: the fallback is a one-way two-phase scan; before the
\* first empty line a line beginning with "Subject: " sets the subject, and a line
\* that does not begin with "Subject: " and contains "Content-Type: text/html" sets
\* the flag; every line after the first empty line is body text, of the html body
\* when the flag is set and of the plain body otherwise
C4_TwoPhaseScan ==
    (smtp.kind = "mail" /\ ~ReadMessage(wire).ok) =>
        smtp.parsed = TwoPhase(Split(wire), FirstEmpty(Split(wire)),
                               SubjectLines(Split(wire), FirstEmpty(Split(wire))),
                               MarkerLines(Split(wire), FirstEmpty(Split(wire)))
                                   \ SubjectLines(Split(wire), FirstEmpty(Split(wire))))

\* C4 as stated: every line before the first empty line that contains
\* "Content-Type: text/html" sets the flag, a "Subject: " line too
C4_AnyMarkerLineSetsFlag ==
    (smtp.kind = "mail" /\ ~ReadMessage(wire).ok) =>
        smtp.parsed = TwoPhase(Split(wire), FirstEmpty(Split(wire)),
                               SubjectLines(Split(wire), FirstEmpty(Split(wire))),
                               MarkerLines(Split(wire), FirstEmpty(Split(wire))))

\* the fallback ran on an input whose flag was set and that has, after its first
\* empty line, a line beginning with "Subject: "; the html body is not empty
C4_HeaderLookalikeInBody ==
    /\ smtp.kind = "mail"
    /\ ~ReadMessage(wire).ok
    /\ smtp.parsed.html # <<>>
    /\ \E i \in 1..Len(Split(wire)) :
          i > FirstEmpty(Split(wire)) /\ HasPrefix(Split(wire)[i], SubjectPrefix)

\* C11: the record is persisted before the forward is attempted: when the INSERT
\* fails the handler returns the error, no row is created and no forward is
\* attempted; when it succeeds exactly one row holds the raw payload unmodified
\* and the handler returns success whether the forward is disabled, succeeds or
\* fails, and a forward is attempted exactly when forwarding is enabled
C11_PersistBeforeForward ==
    smtp.kind = "mail" =>
        /\ smtp.insert = "failed" =>
               /\ smtp.err = "store"
               /\ smtp.forward = "none"
               /\ emails = {}
        /\ smtp.insert = "done" =>
               /\ smtp.err = "nil"
               /\ Cardinality(emails) = 1
               /\ \A r \in emails : r.raw = wire /\ r.id + 1 = nextId
               /\ smtp.forward \in (IF forwardAddr = "" THEN {"none"} ELSE {"sent", "failed"})
        /\ smtp.insert \in {"done", "failed"}

\* forwarding is enabled, the INSERT succeeded and the forward failed: the row is
\* there and the handler returned success
C11_ForwardFailedRowKept ==
    /\ smtp.kind = "mail"
    /\ forwardAddr # ""
    /\ smtp.insert = "done"
    /\ smtp.forward = "failed"
    /\ smtp.err = "nil"
    /\ \E r \in emails : r.raw = wire /\ wire # <<>>

(***************************************************************************)
(* Properties of the search query compiler and of emailsHandler's use of   *)
(* it, under SpecQuery.                                                    *)
(***************************************************************************)
\* the literals of a token list, each with whether it is excluded
Literals(ts) == [k \in 1..Len(ts) |-> [lit |-> ts[k].lit, excluded |-> ts[k].excluded]]

\* C5: for every search string the compiler accepts, FTS5 reads the compiled
\* query as string literals only, one per token, each giving back the token's text
\* (so every token was wrapped in quotes with its quotes doubled), the required
\* ones first and the excluded ones behind NOT; no atom of the search string is
\* read as query syntax
C5_EveryLiteralQuoted ==
    (http.kind = "emails" /\ http.q # <<>> /\ ~fts5_term(http.q).err) =>
        /\ \A k \in 1..Len(FtsLex(fts5_term(http.q).query, 1, FALSE, <<>>)) :
               FtsLex(fts5_term(http.q).query, 1, FALSE, <<>>)[k].kind = "string"
        /\ Literals(FtsLex(fts5_term(http.q).query, 1, FALSE, <<>>))
               = Literals(SelectTokens(Tokenize(http.q, 1, <<>>).tokens, FALSE)
                          \o SelectTokens(Tokenize(http.q, 1, <<>>).tokens, TRUE))
        /\ FtsSyntaxOk(fts5_term(http.q).query)
        /\ http.status # 400

\* a search string with a quote inside a token was compiled and asked of the store
C5_QuoteInsideToken ==
    /\ http.kind = "emails"
    /\ http.status = 200
    /\ ~fts5_term(http.q).err
    /\ \E k \in 1..Len(Tokenize(http.q, 1, <<>>).tokens) :
          \E n \in 1..Len(Tokenize(http.q, 1, <<>>).tokens[k].lit) :
              Tokenize(http.q, 1, <<>>).tokens[k].lit[n] = QUOTE

\* C6: a non-empty search string that does not compile (an unterminated quote, or
\* no required term) is answered 400 without a read of the store and without any
\* result
C6_FailedCompileIs400 ==
    (http.kind = "emails" /\ http.q # <<>> /\ fts5_term(http.q).err) =>
        /\ http.status = 400
        /\ http.reads = 0
        /\ http.result = <<>>

\* a search string with an unterminated quote was asked of a store holding a mail
C6_UnterminatedRejected ==
    /\ http.kind = "emails"
    /\ http.q = <<QUOTE, "a">>
    /\ Tokenize(http.q, 1, <<>>).err
    /\ emails # {}
    /\ http.status = 400

(***************************************************************************)
(* Properties of the store and of the HTTP handlers, under Spec.           *)
(***************************************************************************)
\* C7: every list and every search result is in descending timestamp order, rows
\* with equal timestamps in descending id order
C7_TiesByIdDescending ==
    (http.kind = "emails" /\ http.status = 200) =>
        \A i, j \in 1..Len(http.result) :
            i < j => \/ http.result[i].timestamp > http.result[j].timestamp
                     \/ /\ http.result[i].timestamp = http.result[j].timestamp
                        /\ http.result[i].id > http.result[j].id

\* C8: the index holds an entry for an id exactly when a row with that id exists,
\* and the entry's subject, body, sender and recipients are the row's
C8_IndexMirrorsTable ==
    emails_fts = {Posting(r.id, r.subject, r.body, r.from_addr, r.to_addr) : r \in emails}

\* C10: GET /api/email/{id} answers 404 for an id without a row, and a server-side
\* failure, never 404, when the store fails
C10_StoreFailureIsNot404 ==
    http.kind = "email" =>
        /\ http.storeError => http.status = 500
        /\ (~http.storeError /\ ~\E r \in emails : r.id = http.id) => http.status = 404

(***************************************************************************)
(* Properties of search over a full store, under SpecBulk.                 *)
(***************************************************************************)
\* the ids of the last search result
ResultIds == {http.result[i].id : i \in 1..Len(http.result)}

\* a text made of words and spaces only
PlainWords(s) == s # <<>> /\ \A i \in 1..Len(s) : s[i] \in {"a", "b", SP}

====
